---------------------------- MODULE Spec2Model ----------------------------
(***************************************************************************)
(* Model of scripts/bay_housing_refresh.py: the canonical-key resolver,    *)
(* the scoring and hard-filter rules, the quality gate, the merge engine   *)
(* (merge_duplicates) and the Notion sink (sync_to_notion).                *)
(*                                                                         *)
(* Text is modelled as a sequence of one-character strings, so that        *)
(* normalisation, the street-address pattern and key formatting are        *)
(* computed character by character as the code does.  beds and baths are   *)
(* floats in the code; they are held here in tenths (2.5 baths = 25).      *)
(* None is the value NULL.                                                 *)
(***************************************************************************)
EXTENDS Integers, Sequences, FiniteSets, TLC

VARIABLES
    pair,       \* canonical_key study: the two raw records
    keys,       \* canonical_key study: the keys computed so far
    items,      \* merge_duplicates: the raw records consumed so far, in order
    by_key,     \* merge_duplicates: the merged entries, in insertion order
    out,        \* merge_duplicates: the returned list (<<>> until it returns)
    pc,         \* merge_duplicates: "fold" | "returned"
    qItem,      \* quality_assessment study: the listing assessed
    qBase,      \* quality_assessment study: the complete listing it came from
    qRemoved,   \* quality_assessment study: the field taken away ("none")
    qResult,    \* quality_assessment study: <<verdict, notes>> or <<>>
    listings,   \* sync_to_notion: the merged listings handed to it (items)
    store,      \* the Notion database: rows [id, key]
    store0,     \* the rows when the current sync run began
    spc,        \* sync_to_notion: "idle" | "start" | "loop" | "write" |
                \*                 "done" | "failed" | "skipped"
    si,         \* sync_to_notion: index of the listing the loop is at
    page_id,    \* sync_to_notion: what the lookup returned (NULL for None)
    calls,      \* the store calls of the current run, in order
    failedAt,   \* index of the listing whose store call raised (0: none)
    upserts,    \* sync_to_notion: its counter
    skipped_quality, \* sync_to_notion: its counter
    notion_msg, \* run: the message about the sync
    outcomes,   \* how the earlier sync runs ended, in order
    rpc,        \* run: "off" | "fetch" | "write" | "notion" | "sync" | "done"
    diagnostics, \* run: one entry per source URL attempted, in order
    raw_items,  \* run: the raw records extracted so far
    max_items,  \* run: its argument (--max-items)
    no_notion,  \* run: its argument (--no-notion)
    db_id,      \* run: whether a database id is given
    file        \* the writes to OUT_PATH, in order

keyVars   == <<pair, keys>>
mergeVars == <<items, by_key, out, pc>>
qaVars    == <<qItem, qBase, qRemoved, qResult>>
syncVars  == <<listings, store, store0, spc, si, page_id, calls, failedAt,
               upserts, skipped_quality, notion_msg, outcomes>>
runVars   == <<rpc, diagnostics, raw_items, max_items, no_notion, db_id, file>>
vars      == <<pair, keys, items, by_key, out, pc,
               qItem, qBase, qRemoved, qResult,
               listings, store, store0, spc, si, page_id, calls, failedAt,
               upserts, skipped_quality, notion_msg, outcomes,
               rpc, diagnostics, raw_items, max_items, no_notion, db_id, file>>

NULL == -1

\* the values of the variables a specification does not use
KeyUnused == pair = <<>> /\ keys = <<>>
MergeUnused == items = <<>> /\ by_key = <<>> /\ out = <<>>
QAUnused == qItem = <<>> /\ qBase = <<>> /\ qRemoved = "none" /\ qResult = <<>>
SyncUnused ==
    /\ listings = <<>> /\ store = {} /\ store0 = {} /\ spc = "idle" /\ si = 0
    /\ page_id = NULL /\ calls = <<>> /\ failedAt = 0 /\ upserts = 0
    /\ skipped_quality = 0 /\ notion_msg = "" /\ outcomes = <<>>
RunUnused ==
    /\ rpc = "off" /\ diagnostics = <<>> /\ raw_items = <<>> /\ max_items = 0
    /\ no_notion = FALSE /\ db_id = FALSE /\ file = <<>>

-----------------------------------------------------------------------------
(* Bounds *)

MaxAddrLen == 4
MaxItems == 3
MaxRuns == 2

-----------------------------------------------------------------------------
(* Program constants *)

MAX_RENT == 8000
STRETCH_MAX == 9000
MIN_BEDS == 2
MIN_BATHS == 2
ALLOWED_PROPERTY_TYPES == {"house", "townhouse"}
URL_KEY_LEN == 140
RT_LIMIT == 1800

-----------------------------------------------------------------------------
(* Characters *)

LowerLetters == <<"a","b","c","d","e","f","g","h","i","j","k","l","m",
                  "n","o","p","q","r","s","t","u","v","w","x","y","z">>
UpperLetters == <<"A","B","C","D","E","F","G","H","I","J","K","L","M",
                  "N","O","P","Q","R","S","T","U","V","W","X","Y","Z">>
DigitChars == <<"0","1","2","3","4","5","6","7","8","9">>

Range(f) == {f[i] : i \in DOMAIN f}

IsDigit(c) == c \in Range(DigitChars)
IsLower(c) == c \in Range(LowerLetters)
IsUpper(c) == c \in Range(UpperLetters)
\* \s of the re module
IsSpace(c) == c \in {" ", "\t", "\n", "\r"}
\* the class [a-z0-9 ]
IsKept(c) == IsLower(c) \/ IsDigit(c) \/ c = " "
\* \w of the re module, on ASCII text
IsWord(c) == IsDigit(c) \/ IsLower(c) \/ IsUpper(c) \/ c = "_"

\* str.lower() on one character
LowerChar(c) ==
    IF IsUpper(c)
    THEN LowerLetters[CHOOSE i \in DOMAIN UpperLetters : UpperLetters[i] = c]
    ELSE c

Lower(s) == [i \in DOMAIN s |-> LowerChar(s[i])]

Take(s, n) == SubSeq(s, 1, IF Len(s) < n THEN Len(s) ELSE n)

RECURSIVE DropWhileNotKept(_)
\* the rest of s after a leading run of characters outside [a-z0-9 ]
DropWhileNotKept(s) ==
    IF s = <<>> \/ IsKept(Head(s)) THEN s
    ELSE DropWhileNotKept(Tail(s))

RECURSIVE SubNotKept(_)
\* re.sub(r"[^a-z0-9 ]+", " ", s)
SubNotKept(s) ==
    IF s = <<>> THEN <<>>
    ELSE IF IsKept(Head(s))
         THEN <<Head(s)>> \o SubNotKept(Tail(s))
         ELSE <<" ">> \o SubNotKept(DropWhileNotKept(s))

RECURSIVE DropSpaces(_)
DropSpaces(s) ==
    IF s = <<>> \/ ~IsSpace(Head(s)) THEN s ELSE DropSpaces(Tail(s))

RECURSIVE SubSpaces(_)
\* re.sub(r"\s+", " ", s)
SubSpaces(s) ==
    IF s = <<>> THEN <<>>
    ELSE IF IsSpace(Head(s))
         THEN <<" ">> \o SubSpaces(DropSpaces(s))
         ELSE <<Head(s)>> \o SubSpaces(Tail(s))

RECURSIVE DropTrailingSpaces(_)
DropTrailingSpaces(s) ==
    IF s = <<>> \/ ~IsSpace(s[Len(s)]) THEN s
    ELSE DropTrailingSpaces(SubSeq(s, 1, Len(s) - 1))

\* str.strip()
Strip(s) == DropTrailingSpaces(DropSpaces(s))

normalize_text(s) == Strip(SubSpaces(SubNotKept(Lower(s))))

\* re.search(r"\b\d{1,6}\s+[a-z0-9].+", s, flags=re.I): at some word boundary
\* i, k digits (1 to 6), then m >= 1 blanks, then a letter or digit, then at
\* least one more character.
likely_street_address(s) ==
    \E i \in 1..Len(s), k \in 1..6, m \in 1..Len(s) :
        /\ i + k + m + 1 <= Len(s)
        /\ (i = 1 \/ ~IsWord(s[i - 1]))
        /\ \A j \in i..(i + k - 1) : IsDigit(s[j])
        /\ \A j \in (i + k)..(i + k + m - 1) : IsSpace(s[j])
        /\ LET c == s[i + k + m] IN IsDigit(c) \/ IsLower(c) \/ IsUpper(c)
        /\ s[i + k + m + 1] # "\n"

HasPrefix(s, p) == Len(p) <= Len(s) /\ SubSeq(s, 1, Len(p)) = p
Drop(s, n) == SubSeq(s, n + 1, Len(s))

HTTP  == <<"h","t","t","p",":","/","/">>
HTTPS == <<"h","t","t","p","s",":","/","/">>

RECURSIVE StripScheme(_)
\* re.sub(r"https?://", "", url)
StripScheme(s) ==
    IF s = <<>> THEN <<>>
    ELSE IF HasPrefix(s, HTTPS) THEN StripScheme(Drop(s, Len(HTTPS)))
    ELSE IF HasPrefix(s, HTTP) THEN StripScheme(Drop(s, Len(HTTP)))
    ELSE <<Head(s)>> \o StripScheme(Tail(s))

ADDR_PREFIX     == <<"a","d","d","r",":">>
NAMECITY_PREFIX == <<"n","a","m","e","c","i","t","y",":">>
URL_PREFIX      == <<"u","r","l",":">>

\* canonical_key with the address key built from the address as written
canonical_key_RawAddress(item) ==
    LET addr == normalize_text(item.address)
        name == normalize_text(item.property_name)
        city == normalize_text(item.city)
        url_key == normalize_text(StripScheme(item.url))
    IN  IF likely_street_address(addr) THEN ADDR_PREFIX \o item.address
        ELSE IF name # <<>> /\ city # <<>>
             THEN NAMECITY_PREFIX \o name \o <<"|">> \o city
             ELSE URL_PREFIX \o Take(url_key, URL_KEY_LEN)

canonical_key(item) ==
    LET addr == normalize_text(item.address)
        name == normalize_text(item.property_name)
        city == normalize_text(item.city)
        url_key == normalize_text(StripScheme(item.url))
    IN  IF likely_street_address(addr) THEN ADDR_PREFIX \o addr
        ELSE IF name # <<>> /\ city # <<>>
             THEN NAMECITY_PREFIX \o name \o <<"|">> \o city
             ELSE URL_PREFIX \o Take(url_key, URL_KEY_LEN)

-----------------------------------------------------------------------------
(* Ordering of text, as sorted() orders str values: by code point *)

OtherCodePoints ==
    [c \in {" ", "%", "-", ".", "/", ":", "?", "_", "|", "~"} |->
        CASE c = " " -> 32 [] c = "%" -> 37 [] c = "-" -> 45 [] c = "." -> 46
          [] c = "/" -> 47 [] c = ":" -> 58 [] c = "?" -> 63 [] c = "_" -> 95
          [] c = "|" -> 124 [] c = "~" -> 126]

IndexOf(seq, c) == CHOOSE i \in DOMAIN seq : seq[i] = c

CodePoint(c) ==
    IF IsDigit(c) THEN 47 + IndexOf(DigitChars, c)
    ELSE IF IsUpper(c) THEN 64 + IndexOf(UpperLetters, c)
    ELSE IF IsLower(c) THEN 96 + IndexOf(LowerLetters, c)
    ELSE OtherCodePoints[c]

\* a < b for two str values
StrLess(a, b) ==
    \/ Len(a) < Len(b) /\ SubSeq(b, 1, Len(a)) = a
    \/ \E i \in 1..Len(a) :
          /\ i <= Len(b)
          /\ SubSeq(a, 1, i - 1) = SubSeq(b, 1, i - 1)
          /\ CodePoint(a[i]) < CodePoint(b[i])

RECURSIVE sorted(_)
\* sorted(list(S)) for a set S of str values
sorted(S) ==
    IF S = {} THEN <<>>
    ELSE LET least == CHOOSE x \in S : \A y \in S \ {x} : StrLess(x, y)
         IN  <<least>> \o sorted(S \ {least})

HexDigits == <<"0","1","2","3","4","5","6","7","8","9","A","B","C","D","E","F">>

RECURSIVE quote(_)
\* urllib.parse.quote(u, safe=""): letters, digits and "_.-~" are kept, any
\* other character becomes % and its code point in two hex digits
quote(u) ==
    IF u = <<>> THEN <<>>
    ELSE LET c == Head(u)
             n == CodePoint(c)
         IN  (IF IsDigit(c) \/ IsLower(c) \/ IsUpper(c)
                  \/ c \in {"_", ".", "-", "~"}
              THEN <<c>>
              ELSE <<"%", HexDigits[(n \div 16) + 1], HexDigits[(n % 16) + 1]>>)
             \o quote(Tail(u))

-----------------------------------------------------------------------------
(* Scoring, hard filters, quality gate *)

\* round(s, 2) leaves the sum as it is: every term is a whole number
score(item) ==
    (IF item.price # NULL
     THEN (IF item.price <= MAX_RENT THEN 4
           ELSE IF item.price <= STRETCH_MAX THEN 2 ELSE 0)
     ELSE 0)
    + (IF item.beds # NULL
       THEN (IF item.beds >= 3 * 10 THEN 2
             ELSE IF item.beds >= 2 * 10 THEN 1 ELSE 0)
       ELSE 0)
    + (IF item.baths # NULL /\ item.baths >= 2 * 10 THEN 1 ELSE 0)
    + (IF item.dog_friendly = "yes" THEN 2 ELSE 0)
    + (IF item.parking = "yes" THEN 2 ELSE 0)
    + item.nature_score
    + item.commute_score

\* (item.get("property_type") or "unknown").lower(); the field holds one of
\* the lower-case names infer_property_type returns, or nothing ("")
ptype_of(item) ==
    IF item.property_type = "" THEN "unknown" ELSE item.property_type

\* passes_hard_filters with the price ceiling itself excluded
passes_hard_filters_Strict(item) ==
    /\ ptype_of(item) \in ALLOWED_PROPERTY_TYPES
    /\ ~(item.price # NULL /\ item.price >= STRETCH_MAX)
    /\ ~(item.beds # NULL /\ item.beds < MIN_BEDS * 10)
    /\ ~(item.baths # NULL /\ item.baths < MIN_BATHS * 10)

passes_hard_filters(item) ==
    /\ ptype_of(item) \in ALLOWED_PROPERTY_TYPES
    /\ ~(item.price # NULL /\ item.price > STRETCH_MAX)
    /\ ~(item.beds # NULL /\ item.beds < MIN_BEDS * 10)
    /\ ~(item.baths # NULL /\ item.baths < MIN_BATHS * 10)

RECURSIVE join(_, _)
\* sep.join(parts)
join(sep, parts) ==
    IF parts = <<>> THEN ""
    ELSE IF Len(parts) = 1 THEN parts[1]
    ELSE parts[1] \o sep \o join(sep, Tail(parts))

\* quality_reasons with the address required whatever the property name
quality_reasons_AddressOnly(item) ==
    (IF item.canonical_key = <<>> THEN <<"missing canonical key">> ELSE <<>>)
    \o (IF item.address = <<>>
        THEN <<"missing address/name">> ELSE <<>>)
    \o (IF item.sources = <<>> THEN <<"missing sources">> ELSE <<>>)
    \o (IF item.price = NULL THEN <<"missing price">> ELSE <<>>)
    \o (IF item.beds = NULL THEN <<"missing beds">> ELSE <<>>)
    \o (IF item.baths = NULL THEN <<"missing baths">> ELSE <<>>)
    \o (IF ptype_of(item) \notin ALLOWED_PROPERTY_TYPES
        THEN <<"property type not allowed: " \o ptype_of(item)>> ELSE <<>>)

\* the reasons, in the order the checks append them
quality_reasons(item) ==
    (IF item.canonical_key = <<>> THEN <<"missing canonical key">> ELSE <<>>)
    \o (IF item.address = <<>> /\ item.property_name = <<>>
        THEN <<"missing address/name">> ELSE <<>>)
    \o (IF item.sources = <<>> THEN <<"missing sources">> ELSE <<>>)
    \o (IF item.price = NULL THEN <<"missing price">> ELSE <<>>)
    \o (IF item.beds = NULL THEN <<"missing beds">> ELSE <<>>)
    \o (IF item.baths = NULL THEN <<"missing baths">> ELSE <<>>)
    \o (IF ptype_of(item) \notin ALLOWED_PROPERTY_TYPES
        THEN <<"property type not allowed: " \o ptype_of(item)>> ELSE <<>>)

\* <<verdict, notes>>
quality_assessment(item) ==
    LET reasons == quality_reasons(item)
    IN  IF reasons # <<>> THEN <<"fail", join("; ", reasons)>>
        ELSE <<"pass", "ready">>

-----------------------------------------------------------------------------
(* canonical_key on pairs of raw records with equal normalized addresses *)

AddrChars == {"1", "a", "A", "-"}

RECURSIVE StringsUpTo(_)
StringsUpTo(n) ==
    IF n = 0 THEN {<<>>}
    ELSE LET shorter == StringsUpTo(n - 1)
         IN  shorter \cup {Append(s, c) : s \in shorter, c \in AddrChars}

AddrStrings == StringsUpTo(MaxAddrLen)

NormOf == [s \in AddrStrings |-> normalize_text(s)]

URL_R1 == <<"h","t","t","p","s",":","/","/","r","/","1">>
URL_T2 == <<"h","t","t","p",":","/","/","t","/","2">>

\* source, URL, property name and city of the records of the study
KeyProfiles ==
    { [source |-> "redfin",  url |-> URL_R1, property_name |-> <<>>,
       city |-> <<"a">>],
      [source |-> "redfin",  url |-> URL_R1, property_name |-> <<"A","a">>,
       city |-> <<"a">>],
      [source |-> "realtor", url |-> URL_T2, property_name |-> <<"a","a">>,
       city |-> <<"A">>] }

KeyRecord(p, a) ==
    [source |-> p.source, url |-> p.url, property_name |-> p.property_name,
     city |-> p.city, address |-> a]

KeyInit ==
    /\ \E a \in AddrStrings, pa \in KeyProfiles, pb \in KeyProfiles :
         \E b \in {x \in AddrStrings : NormOf[x] = NormOf[a]} :
            pair = <<KeyRecord(pa, a), KeyRecord(pb, b)>>
    /\ keys = <<>>
    /\ MergeUnused
    /\ pc = "key"
    /\ QAUnused
    /\ SyncUnused
    /\ RunUnused

\* both records are resolved, as merge_duplicates resolves every item
ResolveKeys ==
    /\ pc = "key"
    /\ keys = <<>>
    /\ keys' = <<canonical_key(pair[1]), canonical_key(pair[2])>>
    /\ UNCHANGED <<pair, mergeVars, qaVars, syncVars, runVars>>

KeyNext == ResolveKeys

SpecKey == KeyInit /\ [][KeyNext]_vars

\* C1 (as stated): two raw records with equal normalized addresses get the
\* same canonical key, whatever their source, URL, property name and city,
\* also when the shared normalized address is empty or not street-like.
C1_SameAddressSameKey ==
    keys # <<>> => keys[1] = keys[2]

\* C1 (amended): two raw records whose equal normalized address looks like a
\* street address get the same canonical key, whatever their source, URL,
\* property name and city.
C1_SameStreetAddressSameKey ==
    (keys # <<>> /\ likely_street_address(normalize_text(pair[1].address)))
        => keys[1] = keys[2]

\* two records written differently, from different sources, same street
C1_Witness ==
    /\ keys # <<>>
    /\ likely_street_address(normalize_text(pair[1].address))
    /\ pair[1].address # pair[2].address
    /\ pair[1].source # pair[2].source
    /\ pair[1].property_name # pair[2].property_name
    /\ keys[1] = keys[2]

-----------------------------------------------------------------------------
(* merge_duplicates *)

\* the index of the entry of by_key stored under key k, 0 when there is none
IndexOfKey(bk, k) ==
    IF \E i \in DOMAIN bk : bk[i].canonical_key = k
    THEN CHOOSE i \in DOMAIN bk : bk[i].canonical_key = k
    ELSE 0

\* lines 278-280: the item with its key and its individual score
Keyed(r) ==
    [source |-> r.source, url |-> r.url, listing_id |-> r.listing_id,
     property_name |-> r.property_name, address |-> r.address,
     city |-> r.city, property_type |-> r.property_type,
     price |-> r.price, beds |-> r.beds, baths |-> r.baths,
     dog_friendly |-> r.dog_friendly, parking |-> r.parking,
     nature_score |-> r.nature_score, commute_score |-> r.commute_score,
     canonical_key |-> canonical_key(r), match_score |-> score(r)]

\* lines 283-286: merged = dict(item) with singleton provenance
Seeded(item) ==
    [source |-> item.source, url |-> item.url, listing_id |-> item.listing_id,
     property_name |-> item.property_name, address |-> item.address,
     city |-> item.city, property_type |-> item.property_type,
     price |-> item.price, beds |-> item.beds, baths |-> item.baths,
     dog_friendly |-> item.dog_friendly, parking |-> item.parking,
     nature_score |-> item.nature_score, commute_score |-> item.commute_score,
     canonical_key |-> item.canonical_key, match_score |-> item.match_score,
     sources |-> sorted({item.source}),
     source_urls |-> <<item.url>>,
     listing_ids |-> <<item.listing_id>>]

\* KeepNumeric with the incoming value taken whenever it is there
KeepNumeric_LastWins(cur, item) ==
    [cur EXCEPT
        !.price = IF item.price # NULL THEN item.price ELSE @,
        !.beds  = IF item.beds # NULL THEN item.beds ELSE @,
        !.baths = IF item.baths # NULL THEN item.baths ELSE @]

\* lines 292-294: preserve best-known numeric fields
KeepNumeric(cur, item) ==
    [cur EXCEPT
        !.price = IF @ = NULL /\ item.price # NULL THEN item.price ELSE @,
        !.beds  = IF @ = NULL /\ item.beds # NULL THEN item.beds ELSE @,
        !.baths = IF @ = NULL /\ item.baths # NULL THEN item.baths ELSE @]

\* lines 297-298: keep an address if missing
KeepAddress(cur, item) ==
    IF cur.address = <<>> /\ item.address # <<>>
    THEN [cur EXCEPT !.address = item.address]
    ELSE cur

\* MergeProvenance with the lists overwritten by the incoming record's values
MergeProvenance_Replace(cur, item) ==
    [cur EXCEPT
        !.sources = <<item.source>>,
        !.source_urls = <<item.url>>,
        !.listing_ids = <<item.listing_id>>]

\* lines 301-303: merge provenance
MergeProvenance(cur, item) ==
    [cur EXCEPT
        !.sources = sorted(Range(@) \cup {item.source}),
        !.source_urls = sorted(Range(@) \cup {item.url}),
        !.listing_ids = sorted(Range(@) \cup {item.listing_id})]

\* ChooseRepresentative with baths among the fields taken over
ChooseRepresentative_WithBaths(cur, item) ==
    IF item.match_score > cur.match_score
    THEN [cur EXCEPT
            !.property_name = item.property_name,
            !.city = item.city,
            !.property_type = item.property_type,
            !.dog_friendly = item.dog_friendly,
            !.parking = item.parking,
            !.nature_score = item.nature_score,
            !.commute_score = item.commute_score,
            !.match_score = item.match_score,
            !.baths = item.baths]
    ELSE cur

\* ChooseRepresentative with match_score left out of the fields taken over
ChooseRepresentative_KeepsScore(cur, item) ==
    IF item.match_score > cur.match_score
    THEN [cur EXCEPT
            !.property_name = item.property_name,
            !.city = item.city,
            !.property_type = item.property_type,
            !.dog_friendly = item.dog_friendly,
            !.parking = item.parking,
            !.nature_score = item.nature_score,
            !.commute_score = item.commute_score]
    ELSE cur

\* ChooseRepresentative with a tie going to the later record
ChooseRepresentative_TiesToLater(cur, item) ==
    IF item.match_score >= cur.match_score
    THEN [cur EXCEPT
            !.property_name = item.property_name,
            !.city = item.city,
            !.property_type = item.property_type,
            !.dog_friendly = item.dog_friendly,
            !.parking = item.parking,
            !.nature_score = item.nature_score,
            !.commute_score = item.commute_score,
            !.match_score = item.match_score]
    ELSE cur

\* ChooseRepresentative with the property name left as it was
ChooseRepresentative_KeepsName(cur, item) ==
    IF item.match_score > cur.match_score
    THEN [cur EXCEPT
            !.city = item.city,
            !.property_type = item.property_type,
            !.dog_friendly = item.dog_friendly,
            !.parking = item.parking,
            !.nature_score = item.nature_score,
            !.commute_score = item.commute_score,
            !.match_score = item.match_score]
    ELSE cur

\* lines 306-308: choose higher score representative
ChooseRepresentative(cur, item) ==
    IF item.match_score > cur.match_score
    THEN [cur EXCEPT
            !.property_name = item.property_name,
            !.city = item.city,
            !.property_type = item.property_type,
            !.dog_friendly = item.dog_friendly,
            !.parking = item.parking,
            !.nature_score = item.nature_score,
            !.commute_score = item.commute_score,
            !.match_score = item.match_score]
    ELSE cur

\* lines 290-308: fold item into the entry cur
Merged(cur, item) ==
    ChooseRepresentative(
        MergeProvenance(KeepAddress(KeepNumeric(cur, item), item), item), item)

\* one iteration of the loop of lines 277-308 on the keyed item
FoldItem(bk, item) ==
    LET i == IndexOfKey(bk, item.canonical_key)
    IN  IF i = 0 THEN Append(bk, Seeded(item))
        ELSE [bk EXCEPT ![i] = Merged(@, item)]

\* lines 312-315: the listing with its verdict and notes
Assessed(m) ==
    LET q == quality_assessment(m)
    IN  [source |-> m.source, url |-> m.url, listing_id |-> m.listing_id,
         property_name |-> m.property_name, address |-> m.address,
         city |-> m.city, property_type |-> m.property_type,
         price |-> m.price, beds |-> m.beds, baths |-> m.baths,
         dog_friendly |-> m.dog_friendly, parking |-> m.parking,
         nature_score |-> m.nature_score, commute_score |-> m.commute_score,
         canonical_key |-> m.canonical_key, match_score |-> m.match_score,
         sources |-> m.sources, source_urls |-> m.source_urls,
         listing_ids |-> m.listing_ids,
         data_quality |-> q[1], quality_notes |-> q[2]]

RECURSIVE InsertByScore_BeforeTies(_, _)
\* InsertByScore with m placed before the listings of its own match_score
InsertByScore_BeforeTies(lst, m) ==
    IF lst = <<>> THEN <<m>>
    ELSE IF Head(lst).match_score > m.match_score
         THEN <<Head(lst)>> \o InsertByScore_BeforeTies(Tail(lst), m)
         ELSE <<m>> \o lst

RECURSIVE InsertByScore(_, _)
\* m placed after every listing whose match_score is at least its own
InsertByScore(lst, m) ==
    IF lst = <<>> THEN <<m>>
    ELSE IF Head(lst).match_score >= m.match_score
         THEN <<Head(lst)>> \o InsertByScore(Tail(lst), m)
         ELSE <<m>> \o lst

RECURSIVE SortByScore(_)
\* list.sort(key=match_score, reverse=True): descending and stable
SortByScore(lst) ==
    IF lst = <<>> THEN <<>>
    ELSE InsertByScore(SortByScore(SubSeq(lst, 1, Len(lst) - 1)), lst[Len(lst)])

\* lines 310-317: filter, assess, sort
Returned(bk) ==
    LET kept == SelectSeq(bk, passes_hard_filters)
    IN  SortByScore([i \in DOMAIN kept |-> Assessed(kept[i])])

RECURSIVE FoldAll(_, _)
\* the loop of lines 277-308 over the list raws, from the entries bk
FoldAll(bk, raws) ==
    IF raws = <<>> THEN bk
    ELSE FoldAll(FoldItem(bk, Keyed(Head(raws))), Tail(raws))

merge_duplicates(raws) == Returned(FoldAll(<<>>, raws))

-----------------------------------------------------------------------------
(* The raw records offered to merge_duplicates *)

REDFIN  == <<"r","e","d","f","i","n">>
REALTOR == <<"r","e","a","l","t","o","r">>
URL_T3 == <<"h","t","t","p","s",":","/","/","t","/","3">>
URL_R4 == <<"h","t","t","p","s",":","/","/","r","/","4">>
URL_R5 == <<"h","t","t","p","s",":","/","/","r","/","5">>

\* two sources of one street address (key addr:12 ab)
ID_RedfinStreet ==
    [source |-> REDFIN, url |-> URL_R1, address |-> <<"1","2"," ","A","b">>,
     property_name |-> <<>>, city |-> <<"S">>]
ID_RealtorStreet ==
    [source |-> REALTOR, url |-> URL_T2, address |-> <<"1","2","-","a","b">>,
     property_name |-> <<"a","b">>, city |-> <<"S">>]

\* two sources of one named property (key namecity:kb|s), one without an
\* address and one with an address that is no street address
ID_RealtorNamed ==
    [source |-> REALTOR, url |-> URL_T3, address |-> <<>>,
     property_name |-> <<"K","b">>, city |-> <<"S">>]
ID_RedfinNamed ==
    [source |-> REDFIN, url |-> URL_R4, address |-> <<"a","b">>,
     property_name |-> <<"k","b">>, city |-> <<"s">>]

\* a listing with a name but no city and no address (key url:r 5)
ID_RedfinUrl ==
    [source |-> REDFIN, url |-> URL_R5, address |-> <<>>,
     property_name |-> <<"K","b">>, city |-> <<>>]

\* the same URL under the other scheme, with a city but no name and an
\* address that is no street address (key url:r 5)
URL_T5 == <<"h","t","t","p",":","/","/","r","/","5">>
ID_RealtorUrl ==
    [source |-> REALTOR, url |-> URL_T5, address |-> <<"a","b">>,
     property_name |-> <<>>, city |-> <<"S">>]

Facts(ptype, price, beds, baths, dog, parking, nature, commute) ==
    [property_type |-> ptype, price |-> price, beds |-> beds, baths |-> baths,
     dog_friendly |-> dog, parking |-> parking, nature_score |-> nature,
     commute_score |-> commute]

F_House7500 == Facts("house", 7500, 30, 20, "maybe", "maybe", 0, 2)
F_Apt       == Facts("apartment", NULL, NULL, 25, "yes", "yes", 5, 3)
F_Town      == Facts("townhouse", NULL, NULL, 25, "yes", "maybe", 0, 2)
F_House9000 == Facts("house", 9000, 20, NULL, "maybe", "maybe", 0, 2)
F_House9500 == Facts("house", 9500, 10, 15, "maybe", "maybe", 0, 2)
F_Unknown   == Facts("unknown", NULL, NULL, 20, "maybe", "maybe", 0, 2)
F_House2500 == Facts("house", 2500, NULL, NULL, "yes", "maybe", 0, 2)

Raw(idn, f) ==
    [source |-> idn.source, url |-> idn.url, listing_id |-> quote(idn.url),
     property_name |-> idn.property_name, address |-> idn.address,
     city |-> idn.city, property_type |-> f.property_type,
     price |-> f.price, beds |-> f.beds, baths |-> f.baths,
     dog_friendly |-> f.dog_friendly, parking |-> f.parking,
     nature_score |-> f.nature_score, commute_score |-> f.commute_score]

RawRecords ==
    {Raw(ID_RedfinStreet, f) :
        f \in {F_House7500, F_House9000, F_House9500, F_House2500}}
    \cup {Raw(ID_RealtorStreet, f) : f \in {F_Apt, F_Town, F_Unknown}}
    \cup {Raw(ID_RealtorNamed, f) : f \in {F_House7500, F_Unknown}}
    \cup {Raw(ID_RedfinNamed, f) : f \in {F_House2500, F_House9000}}
    \cup {Raw(ID_RedfinUrl, f) : f \in {F_House7500, F_House2500}}
    \cup {Raw(ID_RealtorUrl, f) : f \in {F_House7500, F_Town}}

KeyedRecords == {Keyed(r) : r \in RawRecords}

Init ==
    /\ pc = "fold"
    /\ items = <<>> /\ by_key = <<>> /\ out = <<>>
    /\ KeyUnused
    /\ QAUnused
    /\ SyncUnused
    /\ RunUnused

\* one iteration of the for loop, on the next item of the input list
Fold ==
    /\ pc = "fold"
    /\ Len(items) < MaxItems
    /\ \E item \in KeyedRecords :
        /\ items' = Append(items, item)
        /\ by_key' = FoldItem(by_key, item)
    /\ UNCHANGED <<out, pc, keyVars, qaVars, syncVars, runVars>>

\* the input list is exhausted: filter, assess, sort, return
Return ==
    /\ pc = "fold"
    /\ out' = Returned(by_key)
    /\ pc' = "returned"
    /\ UNCHANGED <<items, by_key, keyVars, qaVars, syncVars, runVars>>

Next == Fold \/ Return

Spec == Init /\ [][Next]_vars

-----------------------------------------------------------------------------
(* Properties of merge_duplicates *)

\* the items folded so far under key k, in arrival order
Contributors(k) == SelectSeq(items, LAMBDA r : r.canonical_key = k)

Max(S) == CHOOSE x \in S : \A y \in S : y <= x

InOut(k) == \E i \in DOMAIN out : out[i].canonical_key = k

\* the scenario of C2: exactly two raw records of one street address, the
\* redfin one and the realtor one, in either order, and the merge returned
IsRedfinOfScenario(r) ==
    /\ r.source = REDFIN /\ r.price = 7500 /\ r.beds = 30 /\ r.baths = 20
    /\ r.property_type = "house"
IsRealtorOfScenario(r) ==
    /\ r.source = REALTOR /\ r.price = NULL /\ r.beds = NULL /\ r.baths = 25
    /\ r.dog_friendly = "yes"
C2_Scenario ==
    /\ pc = "returned"
    /\ Len(items) = 2
    /\ items[1].canonical_key = items[2].canonical_key
    /\ HasPrefix(items[1].canonical_key, ADDR_PREFIX)
    /\ \/ IsRedfinOfScenario(items[1]) /\ IsRealtorOfScenario(items[2])
       \/ IsRealtorOfScenario(items[1]) /\ IsRedfinOfScenario(items[2])

C2_Facts(m) ==
    /\ m.sources = <<REALTOR, REDFIN>>
    /\ m.price = 7500
    /\ m.beds = 30
    /\ m.data_quality = "pass"

\* C2 (as stated): the scenario yields exactly one listing with sources
\* [realtor, redfin], price 7500, beds 3, data_quality pass, and the baths of
\* whichever of the two records has the higher individual match score.
C2_BathsOfHigherScore ==
    C2_Scenario =>
        /\ Len(out) = 1
        /\ C2_Facts(out[1])
        /\ \E i \in 1..2 :
              /\ \A j \in 1..2 : items[j].match_score <= items[i].match_score
              /\ out[1].baths = items[i].baths

\* C2 (amended): the scenario yields at most one listing, and exactly one
\* when the record with the higher individual score (the first on a tie) is
\* a house or townhouse; that listing has sources [realtor, redfin], price
\* 7500, beds 3, data_quality pass, and the baths of the record that
\* arrived first.
C2_BathsOfFirstArrival ==
    C2_Scenario =>
        LET rep == IF items[2].match_score > items[1].match_score
                   THEN items[2] ELSE items[1]
        IN  /\ Len(out) <= 1
            /\ Len(out) = 1 <=> rep.property_type \in {"house", "townhouse"}
            /\ Len(out) = 1 =>
                  /\ C2_Facts(out[1])
                  /\ out[1].baths = items[1].baths

\* the realtor record arrives first, scores lower, and its baths stay
C2_Witness ==
    /\ C2_Scenario
    /\ IsRealtorOfScenario(items[1])
    /\ items[2].match_score > items[1].match_score
    /\ Len(out) = 1
    /\ out[1].baths = 25

\* C3 (as stated): every returned listing's match_score is the score formula
\* applied to the merged listing's own final field values.
C3_ScoreOfMergedFields ==
    pc = "returned" =>
        \A i \in DOMAIN out : out[i].match_score = score(out[i])

\* C3 (amended): every returned listing's match_score is the highest
\* individual score among the raw records folded into it; it is not
\* recomputed from the merged field values.
C3_ScoreOfBestRecord ==
    pc = "returned" =>
        \A i \in DOMAIN out :
            LET cs == Contributors(out[i].canonical_key)
            IN  out[i].match_score = Max({cs[j].match_score : j \in DOMAIN cs})

\* a returned listing merged from two records whose stored score is below
\* the score of its merged fields
C3_Witness ==
    /\ pc = "returned"
    /\ \E i \in DOMAIN out :
          /\ Len(Contributors(out[i].canonical_key)) >= 2
          /\ out[i].match_score < score(out[i])

\* C4: a merged entry is in the output iff its type is house or townhouse,
\* its price is null or <= 9000, its beds are null or >= 2 and its baths are
\* null or >= 2 (beds and baths in tenths).
C4_HardFilters ==
    pc = "returned" =>
        /\ \A i \in DOMAIN by_key :
              InOut(by_key[i].canonical_key) <=>
                  /\ by_key[i].property_type \in {"house", "townhouse"}
                  /\ by_key[i].price = NULL \/ by_key[i].price <= 9000
                  /\ by_key[i].beds = NULL \/ by_key[i].beds >= 20
                  /\ by_key[i].baths = NULL \/ by_key[i].baths >= 20
        /\ \A i \in DOMAIN out :
              IndexOfKey(by_key, out[i].canonical_key) # 0

\* an apartment with the highest score is left out while a listing at
\* price 9000 is returned
C4_Witness ==
    /\ pc = "returned"
    /\ \E i, j \in DOMAIN by_key :
          /\ by_key[i].property_type = "apartment"
          /\ by_key[i].match_score > by_key[j].match_score
          /\ ~InOut(by_key[i].canonical_key)
          /\ by_key[j].price = 9000
          /\ InOut(by_key[j].canonical_key)

\* a listing at price 9500 is left out
C4_Witness9500 ==
    /\ pc = "returned"
    /\ \E i \in DOMAIN by_key :
          /\ by_key[i].price = 9500
          /\ by_key[i].property_type = "house"
          /\ ~InOut(by_key[i].canonical_key)

\* C6: every fold step leaves each entry's sources, source_urls and
\* listing_ids a superset of what they were, and the entry of the folded
\* record's key holds that record's source, URL and listing id.
C6_ProvenanceGrows ==
    [][Len(items') = Len(items) + 1 =>
        LET item == items'[Len(items')]
            e == by_key'[IndexOfKey(by_key', item.canonical_key)]
        IN  /\ \A i \in DOMAIN by_key :
                  /\ by_key'[i].canonical_key = by_key[i].canonical_key
                  /\ Range(by_key[i].sources) \subseteq Range(by_key'[i].sources)
                  /\ Range(by_key[i].source_urls)
                        \subseteq Range(by_key'[i].source_urls)
                  /\ Range(by_key[i].listing_ids)
                        \subseteq Range(by_key'[i].listing_ids)
            /\ item.source \in Range(e.sources)
            /\ item.url \in Range(e.source_urls)
            /\ item.listing_id \in Range(e.listing_ids)]_vars

\* an entry that three records of two sources were folded into
C6_Witness ==
    \E i \in DOMAIN by_key :
        /\ Len(Contributors(by_key[i].canonical_key)) = 3
        /\ Len(by_key[i].sources) = 2
        /\ Len(by_key[i].source_urls) = 2
        /\ Len(by_key[i].listing_ids) = 2

\* the value of field fld in the earliest record of cs that has it
FirstNonNull(cs, fld) ==
    IF \E j \in DOMAIN cs : cs[j][fld] # NULL
    THEN cs[CHOOSE j \in DOMAIN cs :
                /\ cs[j][fld] # NULL
                /\ \A h \in 1..(j - 1) : cs[h][fld] = NULL][fld]
    ELSE NULL

\* C7: after every fold, each entry's price, beds and baths are those of the
\* earliest-arriving record of its key that has the field (null if none).
C7_FirstNonNullWins ==
    \A i \in DOMAIN by_key :
        \A fld \in {"price", "beds", "baths"} :
            by_key[i][fld] =
                FirstNonNull(Contributors(by_key[i].canonical_key), fld)

\* price null, then 2500, then 7500 under one key: the price is 2500
C7_Witness ==
    /\ Len(items) = 3
    /\ Len(by_key) = 1
    /\ items[1].price = NULL /\ items[2].price = 2500 /\ items[3].price = 7500
    /\ by_key[1].price = 2500

\* price 2500, then null: the price is 2500 in this order too
C7_WitnessReverse ==
    /\ Len(items) = 2
    /\ Len(by_key) = 1
    /\ items[1].price = 2500 /\ items[2].price = NULL
    /\ by_key[1].price = 2500

\* the earliest record of cs with the highest individual score
Representative(cs) ==
    cs[CHOOSE j \in DOMAIN cs :
          /\ \A h \in DOMAIN cs : cs[h].match_score <= cs[j].match_score
          /\ \A h \in 1..(j - 1) : cs[h].match_score < cs[j].match_score]

RepresentativeFields ==
    {"property_name", "city", "property_type", "dog_friendly", "parking",
     "nature_score", "commute_score", "match_score"}

\* C8: after every fold, each entry's representative fields are all those
\* of one contributing record, the one with the highest individual score,
\* the earliest on ties.
C8_RepresentativeOverride ==
    \A i \in DOMAIN by_key :
        LET rep == Representative(Contributors(by_key[i].canonical_key))
        IN  \A fld \in RepresentativeFields : by_key[i][fld] = rep[fld]

\* A of score 3 first, B of score 8 second: the type is B's, not A's
C8_Witness ==
    /\ Len(items) = 2
    /\ Len(by_key) = 1
    /\ items[1].match_score = 3 /\ items[2].match_score = 8
    /\ items[1].property_type # items[2].property_type
    /\ by_key[1].property_type = items[2].property_type

\* B of score 8 first, A of score 3 second: the type is still B's
C8_WitnessReverse ==
    /\ Len(items) = 2
    /\ Len(by_key) = 1
    /\ items[1].match_score = 8 /\ items[2].match_score = 3
    /\ items[1].property_type # items[2].property_type
    /\ by_key[1].property_type = items[1].property_type

\* the place in the input of the first record with canonical key k
FirstSeen(k) ==
    CHOOSE i \in DOMAIN items :
        /\ items[i].canonical_key = k
        /\ \A h \in 1..(i - 1) : items[h].canonical_key # k

\* C12: the returned listings are in non-increasing order of match_score,
\* and two listings of equal match_score are in the order in which their
\* canonical keys were first met in the input.
C12_SortedByScoreStable ==
    pc = "returned" =>
        \A i, j \in DOMAIN out :
            i < j =>
                /\ out[i].match_score >= out[j].match_score
                /\ out[i].match_score = out[j].match_score =>
                       FirstSeen(out[i].canonical_key)
                           < FirstSeen(out[j].canonical_key)

\* three keys met in the order K1, K2, K3 with scores 8, 8, 9: K3 is moved
\* to the front and the tie K1, K2 keeps the input order
C12_Witness ==
    /\ pc = "returned"
    /\ Len(items) = 3 /\ Len(out) = 3
    /\ out[1].match_score > out[2].match_score
    /\ out[2].match_score = out[3].match_score
    /\ out[1].canonical_key = items[3].canonical_key
    /\ out[2].canonical_key = items[1].canonical_key
    /\ out[3].canonical_key = items[2].canonical_key

\* C13: for every returned listing, canonical_key of its final fields is
\* the canonical_key stored in it, the one sync_to_notion looks up
\* (line 430), and no two returned listings have the same canonical_key.
C13_KeyStableUnderMerge ==
    pc = "returned" =>
        /\ \A i \in DOMAIN out : canonical_key(out[i]) = out[i].canonical_key
        /\ \A i, j \in DOMAIN out :
              i # j => out[i].canonical_key # out[j].canonical_key

\* a returned listing whose first record has no address and whose second
\* record brought the address and, with the higher score, another
\* property name and city
C13_Witness ==
    /\ pc = "returned"
    /\ \E i \in DOMAIN out :
          LET cs == Contributors(out[i].canonical_key)
          IN  /\ Len(cs) = 2
              /\ cs[1].address = <<>> /\ out[i].address = cs[2].address
              /\ out[i].address # <<>>
              /\ cs[2].match_score > cs[1].match_score
              /\ out[i].property_name = cs[2].property_name
              /\ out[i].property_name # cs[1].property_name
              /\ out[i].city # cs[1].city

-----------------------------------------------------------------------------
(* quality_assessment on complete listings and on listings with one of the
   six required things taken away *)

\* listings that have price, beds, baths, an address, an allowed property
\* type and sources; the canonical key and the property name vary
CompleteListings ==
    [canonical_key : {<<>>, ADDR_PREFIX \o <<"1","2"," ","a","b">>},
     address : {<<"1","2"," ","A","b">>},
     property_name : {<<>>, <<"a","b">>},
     sources : {<<REDFIN>>, <<REALTOR, REDFIN>>},
     price : {0, 7500},
     beds : {0, 30},
     baths : {20},
     property_type : {"house", "townhouse"}]

\* the listing m with field fld taken away; a property type is taken away
\* by leaving it out ("") or by putting a type that is not allowed
Without(m, fld, ptype) ==
    CASE fld = "price" -> [m EXCEPT !.price = NULL]
      [] fld = "beds" -> [m EXCEPT !.beds = NULL]
      [] fld = "baths" -> [m EXCEPT !.baths = NULL]
      [] fld = "address" -> [m EXCEPT !.address = <<>>]
      [] fld = "sources" -> [m EXCEPT !.sources = <<>>]
      [] fld = "property_type" -> [m EXCEPT !.property_type = ptype]

QAInit ==
    /\ qBase \in CompleteListings
    /\ qItem = qBase
    /\ qRemoved = "none"
    /\ qResult = <<>>
    /\ pc = "qa"
    /\ KeyUnused
    /\ MergeUnused
    /\ SyncUnused
    /\ RunUnused

Remove ==
    /\ pc = "qa"
    /\ qRemoved = "none"
    /\ qResult = <<>>
    /\ \E fld \in {"price", "beds", "baths", "address", "sources",
                    "property_type"},
          ptype \in {"", "apartment", "condo", "unknown"} :
          /\ qRemoved' = fld
          /\ qItem' = Without(qBase, fld, ptype)
    /\ UNCHANGED <<qBase, qResult, pc, keyVars, items, by_key, out, syncVars, runVars>>

Assess ==
    /\ pc = "qa"
    /\ qResult = <<>>
    /\ qResult' = quality_assessment(qItem)
    /\ UNCHANGED <<qBase, qItem, qRemoved, pc, keyVars, items, by_key, out,
                   syncVars, runVars>>

QANext == Remove \/ Assess

SpecQA == QAInit /\ [][QANext]_vars

\* the one reason the quality gate gives for a missing field
ReasonFor(fld, m) ==
    CASE fld = "price" -> "missing price"
      [] fld = "beds" -> "missing beds"
      [] fld = "baths" -> "missing baths"
      [] fld = "address" -> "missing address/name"
      [] fld = "sources" -> "missing sources"
      [] fld = "property_type" ->
            "property type not allowed: "
                \o (IF m.property_type = "" THEN "unknown" ELSE m.property_type)

\* C5 (as stated): a listing with all six passes with no reason; with any
\* one of the six taken away it fails with exactly the reason for that
\* field.  (Read for listings that have a canonical key, as every merged
\* listing does.)
C5_EachRemovalFails ==
    (qResult # <<>> /\ qBase.canonical_key # <<>>) =>
        IF qRemoved = "none"
        THEN qResult = <<"pass", "ready">>
        ELSE qResult = <<"fail", ReasonFor(qRemoved, qItem)>>

\* C5 (amended): a listing with a canonical key and all six passes with no
\* reason; with price, beds, baths, the allowed property type or the sources
\* taken away it fails with exactly the reason for that field; with the
\* address taken away it fails, with exactly the reason "missing
\* address/name", only when it has no property name either, and still
\* passes when it has one.
C5_RemovalFailsUnlessNamed ==
    (qResult # <<>> /\ qBase.canonical_key # <<>>) =>
        IF qRemoved = "none"
            \/ (qRemoved = "address" /\ qItem.property_name # <<>>)
        THEN qResult = <<"pass", "ready">>
        ELSE qResult = <<"fail", ReasonFor(qRemoved, qItem)>>

\* the address is taken away from a named listing, and it still passes
C5_Witness ==
    /\ qResult = <<"pass", "ready">>
    /\ qRemoved = "address"
    /\ qItem.address = <<>>
    /\ qItem.property_name # <<>>
    /\ qBase.canonical_key # <<>>

\* the property type is taken away, and the one reason names the type
C5_WitnessType ==
    /\ qRemoved = "property_type"
    /\ qItem.property_type = "condo"
    /\ qBase.canonical_key # <<>>
    /\ qResult = <<"fail", "property type not allowed: condo">>

-----------------------------------------------------------------------------
(* sync_to_notion, as run calls it, on the listings merge_duplicates returns *)

\* per canonical key, the raw records of the input (none, one that passes
\* the quality gate, one that fails it, one the hard filters drop, or two
\* that merge)
StreetChoices ==
    { <<>>,
      <<Raw(ID_RedfinStreet, F_House7500)>>,
      <<Raw(ID_RedfinStreet, F_House9000)>>,
      <<Raw(ID_RealtorStreet, F_Apt)>>,
      <<Raw(ID_RealtorStreet, F_Town), Raw(ID_RedfinStreet, F_House7500)>> }
NamedChoices ==
    { <<>>,
      <<Raw(ID_RealtorNamed, F_House7500)>>,
      <<Raw(ID_RedfinNamed, F_House2500)>> }
UrlChoices ==
    { <<>>,
      <<Raw(ID_RedfinUrl, F_House7500)>>,
      <<Raw(ID_RedfinUrl, F_House2500)>> }

SyncInputs ==
    {a \o b \o c : a \in StreetChoices, b \in NamedChoices, c \in UrlChoices}
    \cup {c \o b \o a : a \in StreetChoices, b \in NamedChoices,
                          c \in UrlChoices}

\* the text of the "Canonical Key" property: rt(item["canonical_key"])
KeyText(k) == Take(k, RT_LIMIT)

\* rows the database may hold at the start: at most one per canonical key
StartRows ==
    { [id |-> 1, key |-> KeyText(canonical_key(ID_RedfinStreet))],
      [id |-> 2, key |-> KeyText(canonical_key(ID_RealtorNamed))],
      [id |-> 3, key |-> KeyText(canonical_key(ID_RedfinUrl))] }

\* the id Notion gives a new page: one no row has
NewId(rows) == Max({r.id : r \in rows} \cup {Cardinality(StartRows)}) + 1

\* what notion_find_by_canonical_key may return: rows[0]["id"] of the rows
\* whose "Canonical Key" equals key, None when there is none
FindResults(rows, key) ==
    IF \E r \in rows : r.key = key
    THEN {r.id : r \in {x \in rows : x.key = key}}
    ELSE {NULL}

Call(op, i, page, ok) == [op |-> op, i |-> i, page |-> page, ok |-> ok]

SyncInit ==
    /\ listings \in {merge_duplicates(raws) : raws \in SyncInputs}
    /\ store \in SUBSET StartRows
    /\ store0 = store
    /\ spc = "idle" /\ si = 0 /\ page_id = NULL /\ calls = <<>>
    /\ failedAt = 0 /\ upserts = 0 /\ skipped_quality = 0
    /\ notion_msg = "" /\ outcomes = <<>>
    /\ pc = "sync"
    /\ KeyUnused
    /\ MergeUnused
    /\ QAUnused
    /\ RunUnused

\* upsert always by creating a page
UpsertOp_AlwaysCreate(pid) == "create"

\* lines 432-435: PATCH the page found, POST a new page otherwise
UpsertOp(pid) == IF pid # NULL THEN "patch" ELSE "create"

\* a store call raised for listing i, and the loop goes on to the next one
Raised_Continues(i, call) ==
    /\ calls' = Append(calls, call)
    /\ failedAt' = i
    /\ spc' = "loop"
    /\ si' = si + 1
    /\ page_id' = NULL
    /\ UNCHANGED <<listings, store, store0, upserts, skipped_quality,
                   notion_msg, outcomes>>

\* a store call raised for listing i (0: before the loop): the exception
\* leaves sync_to_notion and run's except clause sets the message
\* (lines 492-495)
Raised(i, call) ==
    /\ calls' = Append(calls, call)
    /\ failedAt' = i
    /\ spc' = "failed"
    /\ notion_msg' = "Notion sync failed"
    /\ UNCHANGED <<listings, store, store0, si, page_id, upserts,
                   skipped_quality, outcomes>>

\* run calls sync_to_notion: the first time, or again after a run ended
Enter ==
    /\ pc = "sync"
    /\ \/ spc = "idle" /\ outcomes' = outcomes
       \/ /\ spc \in {"done", "failed", "skipped"}
          /\ Len(outcomes) + 1 < MaxRuns
          /\ outcomes' = Append(outcomes, spc)
    /\ spc' = "start"
    /\ store0' = store
    /\ calls' = <<>> /\ si' = 0 /\ page_id' = NULL /\ failedAt' = 0
    /\ upserts' = 0 /\ skipped_quality' = 0 /\ notion_msg' = ""
    /\ UNCHANGED <<listings, store, pc, keyVars, items, by_key, out, qaVars, runVars>>

\* lines 416-418: no NOTION_API_TOKEN
TokenMissing ==
    /\ spc = "start"
    /\ spc' = "skipped"
    /\ notion_msg' = "Notion sync skipped: missing NOTION_API_TOKEN"
    /\ UNCHANGED <<listings, store, store0, si, page_id, calls, failedAt,
                   upserts, skipped_quality, outcomes>>
    /\ UNCHANGED <<pc, keyVars, items, by_key, out, qaVars, runVars>>

\* lines 420-424: notion_ensure_schema returns and the loop starts
EnsureSchema ==
    /\ spc = "start"
    /\ spc' = "loop"
    /\ calls' = Append(calls, Call("schema", 0, NULL, TRUE))
    /\ si' = 1
    /\ UNCHANGED <<listings, store, store0, page_id, failedAt, upserts,
                   skipped_quality, notion_msg, outcomes>>
    /\ UNCHANGED <<pc, keyVars, items, by_key, out, qaVars, runVars>>

\* line 420: notion_ensure_schema raises
EnsureSchemaFails ==
    /\ spc = "start"
    /\ Raised(0, Call("schema", 0, NULL, FALSE))
    /\ UNCHANGED <<pc, keyVars, items, by_key, out, qaVars, runVars>>

\* lines 426-428
SkipQuality ==
    /\ spc = "loop"
    /\ si <= Len(listings)
    /\ listings[si].data_quality # "pass"
    /\ skipped_quality' = skipped_quality + 1
    /\ si' = si + 1
    /\ UNCHANGED <<listings, store, store0, spc, page_id, calls, failedAt,
                   upserts, notion_msg, outcomes>>
    /\ UNCHANGED <<pc, keyVars, items, by_key, out, qaVars, runVars>>

\* line 430: the lookup returns
Find ==
    /\ spc = "loop"
    /\ si <= Len(listings)
    /\ listings[si].data_quality = "pass"
    /\ \E pid \in FindResults(store, listings[si].canonical_key) :
          /\ page_id' = pid
          /\ calls' = Append(calls, Call("query", si, pid, TRUE))
    /\ spc' = "write"
    /\ UNCHANGED <<listings, store, store0, si, failedAt, upserts,
                   skipped_quality, notion_msg, outcomes>>
    /\ UNCHANGED <<pc, keyVars, items, by_key, out, qaVars, runVars>>

\* line 430: the lookup raises
FindFails ==
    /\ spc = "loop"
    /\ si <= Len(listings)
    /\ listings[si].data_quality = "pass"
    /\ Raised(si, Call("query", si, NULL, FALSE))
    /\ UNCHANGED <<pc, keyVars, items, by_key, out, qaVars, runVars>>

\* lines 432-436: the PATCH or POST returns
Upsert ==
    /\ spc = "write"
    /\ calls' = Append(calls, Call(UpsertOp(page_id), si, page_id, TRUE))
    /\ store' = IF UpsertOp(page_id) = "create"
                THEN store \cup {[id |-> NewId(store),
                                  key |-> KeyText(listings[si].canonical_key)]}
                ELSE store
    /\ upserts' = upserts + 1
    /\ si' = si + 1
    /\ spc' = "loop"
    /\ page_id' = NULL
    /\ UNCHANGED <<listings, store0, failedAt, skipped_quality, notion_msg,
                   outcomes>>
    /\ UNCHANGED <<pc, keyVars, items, by_key, out, qaVars, runVars>>

\* lines 432-435: the PATCH or POST raises
UpsertFails ==
    /\ spc = "write"
    /\ Raised(si, Call(UpsertOp(page_id), si, page_id, FALSE))
    /\ UNCHANGED <<pc, keyVars, items, by_key, out, qaVars, runVars>>

\* line 438: the loop is over and sync_to_notion returns its message
SyncReturn ==
    /\ spc = "loop"
    /\ si > Len(listings)
    /\ spc' = "done"
    /\ notion_msg' = "Notion upserts (deduped)"
    /\ UNCHANGED <<listings, store, store0, si, page_id, calls, failedAt,
                   upserts, skipped_quality, outcomes>>
    /\ UNCHANGED <<pc, keyVars, items, by_key, out, qaVars, runVars>>

SyncNext ==
    \/ Enter \/ TokenMissing \/ EnsureSchema \/ EnsureSchemaFails
    \/ SkipQuality \/ Find \/ FindFails \/ Upsert \/ UpsertFails \/ SyncReturn

SpecSync == SyncInit /\ [][SyncNext]_vars

-----------------------------------------------------------------------------
(* Properties of sync_to_notion *)

IsPass(i) == listings[i].data_quality = "pass"

\* the calls of the current run made for listing i
CallsFor(i) == SelectSeq(calls, LAMBDA c : c.i = i)
WritesFor(i) == SelectSeq(calls, LAMBDA c : c.i = i /\ c.op \in {"patch", "create"})

RowsOf(rows, k) == {r \in rows : r.key = KeyText(k)}

\* C9: in a run that completes, every passing listing causes exactly one
\* write, a patch of the row found for its key when the database had one
\* and a create otherwise; a listing that does not pass causes no store
\* call; the database ends with exactly one row per passing listing's key;
\* and a run that follows a completed run creates no row.
C9_UpsertByKey ==
    /\ spc = "done" =>
          \A i \in DOMAIN listings :
              IF IsPass(i)
              THEN LET ws == WritesFor(i)
                       had == RowsOf(store0, listings[i].canonical_key)
                   IN  /\ Len(ws) = 1
                       /\ ws[1].ok
                       /\ IF had # {}
                          THEN ws[1].op = "patch"
                               /\ ws[1].page \in {r.id : r \in had}
                          ELSE ws[1].op = "create"
                       /\ Cardinality(RowsOf(store, listings[i].canonical_key))
                            = 1
              ELSE CallsFor(i) = <<>>
    /\ (outcomes # <<>> /\ outcomes[Len(outcomes)] = "done") =>
          /\ \A j \in DOMAIN calls : calls[j].op # "create"
          /\ store = store0

\* a first run created a row and patched another, skipped a failing
\* listing, and the second run has completed as well
C9_Witness ==
    /\ spc = "done"
    /\ outcomes = <<"done">>
    /\ Cardinality(store) > Cardinality(StartRows \cap store)
    /\ StartRows \cap store # {}
    /\ \E i \in DOMAIN listings : ~IsPass(i)
    /\ Cardinality({i \in DOMAIN listings : IsPass(i)}) >= 2
    /\ \A i \in DOMAIN listings : IsPass(i) => WritesFor(i)[1].op = "patch"

\* listing i was upserted in the current run
Upserted(i) == \E j \in DOMAIN calls :
    calls[j].i = i /\ calls[j].op \in {"patch", "create"} /\ calls[j].ok

\* C10 (as stated): when a store call fails for one listing, the loop goes
\* on, so once the run is over every other passing listing is upserted.
C10_OthersStillUpserted ==
    (failedAt # 0 /\ spc \in {"done", "failed"}) =>
        \A i \in DOMAIN listings : (IsPass(i) /\ i # failedAt) => Upserted(i)

\* C10 (amended): when a store call fails for one listing, the sync ends
\* there: run catches the failure and records it as the one message
\* "Notion sync failed"; the passing listings before it keep their upserts
\* and no later listing is looked up or written in that run.
C10_FailureEndsSync ==
    failedAt # 0 =>
        /\ spc = "failed"
        /\ notion_msg = "Notion sync failed"
        /\ \A i \in DOMAIN listings :
              /\ (IsPass(i) /\ i < failedAt) => Upserted(i)
              /\ i > failedAt => CallsFor(i) = <<>>
        /\ ~Upserted(failedAt)

\* the call for the first of two passing listings failed after the lookup,
\* and the second one has no call
C10_Witness ==
    /\ spc = "failed"
    /\ failedAt = 1
    /\ Len(listings) >= 2
    /\ IsPass(2)
    /\ CallsFor(2) = <<>>
    /\ Len(CallsFor(1)) = 2


-----------------------------------------------------------------------------
(* run: fetch every source URL, merge, write the JSON file, sync *)

\* the source of each URL of SEARCH_URLS, in the order the loops visit them
SEARCH_URLS == <<REDFIN, REDFIN, REALTOR, REALTOR>>

\* what parse_candidates may extract from a page of a source
Pages(source) ==
    IF source = REDFIN
    THEN { <<Raw(ID_RedfinStreet, F_House7500)>>,
           <<Raw(ID_RedfinStreet, F_House9000)>> }
    ELSE { <<>>,
           <<Raw(ID_RealtorStreet, F_Town), Raw(ID_RealtorNamed, F_House7500)>> }

\* lines 457-458: merged[:max_items] when max_items > 0
Truncated(merged, n) ==
    IF n > 0 THEN SubSeq(merged, 1, IF n < Len(merged) THEN n ELSE Len(merged))
    ELSE merged

\* lines 462-485: what json.dump writes
Artifact ==
    [diagnostics |-> diagnostics,
     count_raw |-> Len(raw_items),
     count_deduped_cross_source |-> Len(listings),
     count_quality_pass |->
        Cardinality({i \in DOMAIN listings : listings[i].data_quality = "pass"}),
     count_quality_fail |->
        Cardinality({i \in DOMAIN listings : listings[i].data_quality # "pass"}),
     listings |-> listings]

RunInit ==
    /\ rpc = "fetch"
    /\ diagnostics = <<>> /\ raw_items = <<>> /\ file = <<>>
    /\ max_items \in {0, 1}
    /\ no_notion \in BOOLEAN
    /\ db_id \in BOOLEAN
    /\ listings = <<>>
    /\ store \in {{}, StartRows}
    /\ store0 = store
    /\ spc = "idle" /\ si = 0 /\ page_id = NULL /\ calls = <<>>
    /\ failedAt = 0 /\ upserts = 0 /\ skipped_quality = 0
    /\ notion_msg = "" /\ outcomes = <<>>
    /\ pc = "run"
    /\ KeyUnused
    /\ MergeUnused
    /\ QAUnused

\* lines 448-452: the page of the next URL is fetched and parsed
FetchOk ==
    /\ rpc = "fetch"
    /\ Len(diagnostics) < Len(SEARCH_URLS)
    /\ LET source == SEARCH_URLS[Len(diagnostics) + 1]
       IN  \E page \in Pages(source) :
             /\ diagnostics' =
                  Append(diagnostics, [source |-> source, found |-> Len(page)])
             /\ raw_items' = raw_items \o page
    /\ UNCHANGED <<rpc, max_items, no_notion, db_id, file>>
    /\ UNCHANGED <<keyVars, mergeVars, qaVars, syncVars>>

\* fetch failures of the next URL that leave run
FetchFails_Aborts ==
    /\ rpc = "fetch"
    /\ Len(diagnostics) < Len(SEARCH_URLS)
    /\ rpc' = "done"
    /\ UNCHANGED <<diagnostics, raw_items, max_items, no_notion, db_id, file>>
    /\ UNCHANGED <<keyVars, mergeVars, qaVars, syncVars>>

\* lines 453-454: fetch_html or parse_candidates raises for the next URL
FetchFails ==
    /\ rpc = "fetch"
    /\ Len(diagnostics) < Len(SEARCH_URLS)
    /\ LET source == SEARCH_URLS[Len(diagnostics) + 1]
       IN  diagnostics' =
             Append(diagnostics, [source |-> source, found |-> NULL])
    /\ UNCHANGED <<rpc, raw_items, max_items, no_notion, db_id, file>>
    /\ UNCHANGED <<keyVars, mergeVars, qaVars, syncVars>>

\* lines 456-458: the loops are over, merged = merge_duplicates(raw_items)
Merge ==
    /\ rpc = "fetch"
    /\ Len(diagnostics) = Len(SEARCH_URLS)
    /\ listings' = Truncated(merge_duplicates(raw_items), max_items)
    /\ rpc' = "write"
    /\ UNCHANGED <<diagnostics, raw_items, max_items, no_notion, db_id, file>>
    /\ UNCHANGED <<store, store0, spc, si, page_id, calls, failedAt, upserts,
                   skipped_quality, notion_msg, outcomes>>
    /\ UNCHANGED <<keyVars, mergeVars, qaVars>>

\* lines 460-485: the JSON file is written
WriteFile ==
    /\ rpc = "write"
    /\ file' = Append(file, Artifact)
    /\ rpc' = "notion"
    /\ UNCHANGED <<diagnostics, raw_items, max_items, no_notion, db_id>>
    /\ UNCHANGED <<keyVars, mergeVars, qaVars, syncVars>>

\* lines 487-488: --no-notion
SkipNoNotion ==
    /\ rpc = "notion"
    /\ no_notion
    /\ notion_msg' = "Notion sync skipped (--no-notion)"
    /\ rpc' = "done"
    /\ UNCHANGED <<diagnostics, raw_items, max_items, no_notion, db_id, file>>
    /\ UNCHANGED <<listings, store, store0, spc, si, page_id, calls, failedAt,
                   upserts, skipped_quality, outcomes>>
    /\ UNCHANGED <<keyVars, mergeVars, qaVars>>

\* lines 488-490: no database id
SkipNoDbId ==
    /\ rpc = "notion"
    /\ ~no_notion
    /\ ~db_id
    /\ notion_msg' = "Notion sync skipped: set NOTION_DATABASE_ID"
    /\ rpc' = "done"
    /\ UNCHANGED <<diagnostics, raw_items, max_items, no_notion, db_id, file>>
    /\ UNCHANGED <<listings, store, store0, spc, si, page_id, calls, failedAt,
                   upserts, skipped_quality, outcomes>>
    /\ UNCHANGED <<keyVars, mergeVars, qaVars>>

\* lines 491-493: sync_to_notion(merged, db_id) is called
CallSync ==
    /\ rpc = "notion"
    /\ ~no_notion
    /\ db_id
    /\ spc' = "start"
    /\ store0' = store
    /\ rpc' = "sync"
    /\ UNCHANGED <<diagnostics, raw_items, max_items, no_notion, db_id, file>>
    /\ UNCHANGED <<listings, store, si, page_id, calls, failedAt, upserts,
                   skipped_quality, notion_msg, outcomes>>
    /\ UNCHANGED <<keyVars, mergeVars, qaVars>>

\* lines 497-500: the sync returned or its exception was caught; run prints
\* its summary and returns
RunReturn ==
    /\ rpc = "sync"
    /\ spc \in {"done", "failed", "skipped"}
    /\ rpc' = "done"
    /\ UNCHANGED <<diagnostics, raw_items, max_items, no_notion, db_id, file>>
    /\ UNCHANGED <<keyVars, mergeVars, qaVars, syncVars>>

RunNext ==
    \/ FetchOk \/ FetchFails \/ Merge \/ WriteFile
    \/ SkipNoNotion \/ SkipNoDbId \/ CallSync
    \/ TokenMissing \/ EnsureSchema \/ EnsureSchemaFails
    \/ SkipQuality \/ Find \/ FindFails \/ Upsert \/ UpsertFails \/ SyncReturn
    \/ RunReturn

\* the steps of run other than the call of merge_duplicates
RunSteps ==
    \/ FetchOk \/ FetchFails \/ WriteFile
    \/ SkipNoNotion \/ SkipNoDbId \/ CallSync
    \/ TokenMissing \/ EnsureSchema \/ EnsureSchemaFails
    \/ SkipQuality \/ Find \/ FindFails \/ Upsert \/ UpsertFails \/ SyncReturn
    \/ RunReturn

\* the call of merge_duplicates returns: what a Merge step does to rpc
MergeReturns ==
    /\ rpc = "fetch"
    /\ Len(diagnostics) = Len(SEARCH_URLS)
    /\ rpc' = "write"

\* every step of run ends: the fetches and the store calls have timeouts
\* (lines 45 and 332), merge_duplicates is a loop over a finite list, and
\* nothing else waits
SpecRun ==
    RunInit /\ [][RunNext]_vars /\ WF_vars(RunSteps) /\ WF_rpc(MergeReturns)

-----------------------------------------------------------------------------
(* Properties of run *)

\* the file is written at most once, only after every source URL has been
\* attempted, before the first store call, and before run returns
ArtifactOrder ==
    /\ Len(file) <= 1
    /\ Len(file) = 1 =>
          /\ Len(diagnostics) = Len(SEARCH_URLS)
          /\ Len(file[1].diagnostics) = Len(SEARCH_URLS)
    /\ calls # <<>> => Len(file) = 1
    /\ spc # "idle" => Len(file) = 1
    /\ rpc = "done" => Len(file) = 1

\* C11: in every execution of run, whichever fetches fail and however the
\* sync ends (returns, raises, skipped by flag, skipped for a missing
\* database id or token), run returns, and the JSON file is written exactly
\* once, after all source URLs were attempted and before any store call.
C11_ArtifactWrittenOnce == []ArtifactOrder /\ <>(rpc = "done")

\* run returned after two failed fetches and a sync that raised in the
\* loop: the file was written once, with the four diagnostics
C11_Witness ==
    /\ rpc = "done"
    /\ Cardinality({i \in DOMAIN diagnostics : diagnostics[i].found = NULL}) = 2
    /\ spc = "failed" /\ failedAt >= 1
    /\ Len(calls) >= 2
    /\ Len(file) = 1
    /\ Len(file[1].diagnostics) = Len(SEARCH_URLS)

\* run returned with every fetch failed and the sync skipped for a missing
\* token: the file was written once
C11_WitnessTokenMissing ==
    /\ rpc = "done"
    /\ \A i \in DOMAIN diagnostics : diagnostics[i].found = NULL
    /\ spc = "skipped"
    /\ calls = <<>>
    /\ Len(file) = 1

=============================================================================
